---- MODULE Spec2Model ----
(***************************************************************************)
(* Model of Acorn_Archimedes_Stroke_Synth.py: a straight-line script that  *)
(* loads a labelled table, splits it, oversamples the training part with   *)
(* SMOTE, repairs the synthetic rows, scores them against the real rows,   *)
(* filters, trims and rebalances them, and compares two classifiers.       *)
(*                                                                         *)
(* Two specifications share the module:                                    *)
(*   Spec        the pipeline, lines 109-290.  A synthetic point is        *)
(*               represented by the one thing the pipeline later reads     *)
(*               from its feature values: its Euclidean distance to the    *)
(*               nearest real row in standardised space, in DistUnit.      *)
(*   SpecRepair  the repair loops, lines 163-181, on tables of raw feature *)
(*               values.                                                   *)
(***************************************************************************)
EXTENDS Integers, Sequences, FiniteSets, Bags, TLC

VARIABLES
    pc,               \* the statement group the script is about to run
    number_died,      \* line 115: rows of the file with stroke == 0
    number_survived,  \* line 116: rows of the file with stroke == 1
    y_train,          \* line 123: class -> number of training rows
    y_test,           \* line 123: class -> number of test rows
    required_smote_count, \* line 130: the list handed to the sampler
    error,            \* the exception that ended the run, or "none"
    X_synthetic,      \* line 133: the synthetic points, in SMOTE's order
    y_synthetic,      \* line 133: their labels, in the same order
    synth_df,         \* the synthetic table (see the actions for its shape)
    X_train_std,      \* lines 126/191: a scaled set
    X_test_std,       \* lines 126/267
    X_synth_std,      \* lines 191/267
    model,            \* line 193
    model_synth,      \* line 270
    applied,          \* every predict / predict_proba call made so far
    synth_X,          \* SpecRepair: the feature columns of synth_df
    row_is_view       \* SpecRepair: whether iterrows() hands out views

vars == <<pc, number_died, number_survived, y_train, y_test,
          required_smote_count, error, X_synthetic,
          y_synthetic, synth_df, X_train_std, X_test_std, X_synth_std,
          model, model_synth, applied, synth_X, row_is_view>>

-----------------------------------------------------------------------------
(* Bounds of the model.                                                    *)

\* Largest number of rows in data/processed_stroke.csv.
MaxData == 5

\* Largest number of rows of the raw table handed to the repair loops.
MaxRows == 1

\* SMOTE's k_neighbors.  Line 79 leaves it at imblearn's default, 5, which
\* needs 6 training rows per class and yields at least 24 synthetic rows; the
\* model scales it down to 1, the smallest value for which interpolation has
\* a neighbour to use.
k_neighbors == 1

-----------------------------------------------------------------------------
(* Program constants.                                                      *)

\* Line 123: test_size = 0.20, in percent.
test_size_pct == 20

\* Line 130: original_frequency * 2.
smote_factor == 2

\* Line 227: 0.001, in DistUnit = 0.0005.
duplicateThreshold == 2

\* Line 232: proportion_to_remove = 0.1, in percent.
proportion_to_remove_pct == 10

Classes == {0, 1}

\* Distances a synthetic point can have to its nearest real row, in DistUnit:
\* 0.0005 (below the threshold) and 0.001 (at it, so not below).
Dists == {1, 2}

Undefined == [data |-> "undefined", fit_on |-> "undefined"]

-----------------------------------------------------------------------------
(* Helpers on sequences and bags.                                          *)

\* The rows of sequence s, each with the number of times it occurs.
BagOfSeq(s) ==
    [r \in {s[i] : i \in 1..Len(s)} |->
       Cardinality({i \in 1..Len(s) : s[i] = r})]

\* Sequence t with x put in at position i.
Insert(t, i, x) ==
    [j \in 1..(Len(t) + 1) |->
       IF j < i THEN t[j] ELSE IF j = i THEN x ELSE t[j - 1]]

\* All orders in which the elements of sequence s can be laid out.
RECURSIVE Arrangements(_)
Arrangements(s) ==
    IF s = <<>> THEN {<<>>}
    ELSE UNION {{Insert(t, i, Head(s)) : i \in 1..(Len(t) + 1)} :
                t \in Arrangements(Tail(s))}

\* The sub-bags of b with exactly n rows.
SubBagsOfSize(b, n) == {s \in SubBag(b) : BagCardinality(s) = n}

\* The rows of bag b that are in set S, as a bag: a boolean mask.
Mask(b, S) == [r \in S \cap BagToSet(b) |-> CopiesIn(r, b)]

\* df[df['stroke'] == c].
RowsOfClass(b, c) == Mask(b, {r \in BagToSet(b) : r.stroke = c})

CountClass(b, c) == BagCardinality(RowsOfClass(b, c))

Repeat(x, n) == [i \in 1..n |-> x]

-----------------------------------------------------------------------------
(* Lines 20-32.  A scaled set is known by the table it holds and by the    *)
(* table its StandardScaler was fitted on.                                 *)

standardise_data_fit_on_test(X_train, X_test) ==
    <<[data |-> X_train, fit_on |-> X_test],
      [data |-> X_test, fit_on |-> X_test]>>

standardise_data(X_train, X_test) ==
    <<[data |-> X_train, fit_on |-> X_train],
      [data |-> X_test, fit_on |-> X_train]>>

\* LogisticRegression().fit(X, y): the classifier remembers what it saw.
fit(X_std) == [trained_on |-> X_std]

\* model.predict(X) / model.predict_proba(X), as an entry of the call log.
predict(name, m, X_std, line) ==
    [model |-> name, trained_on |-> m.trained_on, features |-> X_std,
     line |-> line]

-----------------------------------------------------------------------------
(* Line 123: train_test_split(X, y, test_size = 0.20).  sklearn takes      *)
(* ceil(test_size * n) rows for the test part and the rest for training,   *)
(* and refuses an empty training part.  The rows are drawn at random, so   *)
(* any class make-up of the test part is possible.                         *)

n_test(n) == (n * test_size_pct + 99) \div 100

train_test_split(n0, n1) ==
    {<<[c \in Classes |-> IF c = 0 THEN n0 - t0 ELSE n1 - t1],
       [c \in Classes |-> IF c = 0 THEN t0 ELSE t1]>> :
        <<t0, t1>> \in {tt \in (0..n0) \X (0..n1) :
                          tt[1] + tt[2] = n_test(n0 + n1)}}

-----------------------------------------------------------------------------
(* Lines 128-130: np.unique(y_train, return_counts = True) lists only the  *)
(* classes that occur, in increasing order.                                *)

original_frequency(y) ==
    (IF y[0] > 0 THEN <<y[0]>> ELSE <<>>) \o
    (IF y[1] > 0 THEN <<y[1]>> ELSE <<>>)

times(freq, k) == [i \in 1..Len(freq) |-> freq[i] * k]

-----------------------------------------------------------------------------
(* Lines 34-89: make_synthetic_data_smote.                                 *)

\* The training rows as SMOTE receives them.  A real row is at distance 0
\* from the real data.
X_rows(y) == Repeat(0, y[0] + y[1])
y_rows(y) == Repeat(0, y[0]) \o Repeat(1, y[1])

\* Lines 61-62 with the parameter taken for the final count.
n_class_is_final(number_of_samples_c, count_label_c) == number_of_samples_c

\* Lines 61-62: SMOTE wants final counts, so the current count is added.
n_class(number_of_samples_c, count_label_c) ==
    number_of_samples_c + count_label_c

\* Lines 79-80 with SMOTE skipping a class it cannot interpolate in.
smote_refuses_never(y, sampling_strategy) == FALSE

\* Lines 79-80: fit_resample raises ValueError when a class that needs new
\* points has no k_neighbors + 1 rows to search among, or when a class is to
\* shrink.  A class that needs no new point is skipped.
smote_refuses(y, sampling_strategy) ==
    \E c \in Classes :
        \/ sampling_strategy[c] < y[c]
        \/ sampling_strategy[c] > y[c] /\ y[c] < k_neighbors + 1

\* Lines 79-80: the rows of X and y, then the new points of class 0, then
\* those of class 1.  Each new point lies between two real rows of its class;
\* where on the segment is drawn at random, and with it the point's distance
\* to the real data.
fit_resample(y, sampling_strategy) ==
    {[X |-> X_rows(y) \o new0 \o new1,
      y |-> y_rows(y) \o Repeat(0, Len(new0)) \o Repeat(1, Len(new1))] :
        new0 \in [1..(sampling_strategy[0] - y[0]) -> Dists],
        new1 \in [1..(sampling_strategy[1] - y[1]) -> Dists]}

\* Lines 86-87: X_resampled[len(X):].
synthetic_part(resampled, len_X) ==
    SubSeq(resampled, len_X + 1, Len(resampled))

\* number_of_samples[0] and [1] are elements 1 and 2 here; a list with one
\* element raises IndexError at line 62.
make_synthetic_data_smote(y, number_of_samples) ==
    IF Len(number_of_samples) < 2 THEN {[error |-> "IndexError"]}
    ELSE LET count_label == [c \in Classes |-> y[c]]
             sampling_strategy ==
                 [c \in Classes |->
                    n_class(number_of_samples[c + 1], count_label[c])]
         IN  IF smote_refuses(y, sampling_strategy)
             THEN {[error |-> "ValueError"]}
             ELSE {[error |-> "none",
                    X_synthetic |-> synthetic_part(r.X, Len(X_rows(y))),
                    y_synthetic |-> synthetic_part(r.y, Len(y_rows(y)))] :
                     r \in fit_resample(y, sampling_strategy)}

-----------------------------------------------------------------------------
(* The pipeline.                                                           *)

Init ==
    /\ pc = "split"
    /\ \E n0 \in 0..MaxData, n1 \in 0..MaxData :
         /\ n0 + n1 \in 1..MaxData
         /\ number_died = n0
         /\ number_survived = n1
    /\ y_train = [c \in Classes |-> 0]
    /\ y_test = [c \in Classes |-> 0]
    /\ required_smote_count = <<>>
    /\ error = "none"
    /\ X_synthetic = <<>>
    /\ y_synthetic = <<>>
    /\ synth_df = <<>>
    /\ X_train_std = Undefined
    /\ X_test_std = Undefined
    /\ X_synth_std = Undefined
    /\ model = fit(Undefined)
    /\ model_synth = fit(Undefined)
    /\ applied = {}
    /\ synth_X = <<>>
    /\ row_is_view = FALSE

data_vars == <<number_died, number_survived>>
split_vars == <<y_train, y_test>>
sample_vars == <<required_smote_count, X_synthetic, y_synthetic>>
eval_vars == <<X_train_std, X_test_std, X_synth_std, model, model_synth,
               applied>>
repair_vars == <<synth_X, row_is_view>>

Abort(e) == pc' = "failed" /\ error' = e

\* Lines 122-126.
Split ==
    /\ pc = "split"
    /\ LET n == number_died + number_survived IN
       \/ /\ n - n_test(n) = 0
          /\ Abort("ValueError")
          /\ UNCHANGED <<data_vars, split_vars, sample_vars, synth_df,
                         eval_vars, repair_vars>>
       \/ /\ n - n_test(n) > 0
          /\ \E s \in train_test_split(number_died, number_survived) :
               /\ y_train' = s[1]
               /\ y_test' = s[2]
          /\ X_train_std' = standardise_data("X_train", "X_test")[1]
          /\ X_test_std' = standardise_data("X_train", "X_test")[2]
          /\ pc' = "sample"
          /\ UNCHANGED <<data_vars, sample_vars, synth_df, error,
                         X_synth_std, model, model_synth, applied,
                         repair_vars>>

\* Lines 128-134.
Sample ==
    /\ pc = "sample"
    /\ required_smote_count' = times(original_frequency(y_train), smote_factor)
    /\ \E r \in make_synthetic_data_smote(y_train, required_smote_count') :
         \/ /\ r.error # "none"
            /\ Abort(r.error)
            /\ UNCHANGED <<X_synthetic, y_synthetic>>
         \/ /\ r.error = "none"
            /\ X_synthetic' = r.X_synthetic
            /\ y_synthetic' = r.y_synthetic
            /\ pc' = "table"
            /\ UNCHANGED error
    /\ UNCHANGED <<data_vars, split_vars, synth_df, eval_vars, repair_vars>>

\* Lines 155-185: one row per synthetic point, in SMOTE's order, with its
\* label beside it.  The row's feature columns are the point's, repaired
\* (SpecRepair); `point` stands for them.
BuildTable ==
    /\ pc = "table"
    /\ synth_df' = [i \in 1..Len(X_synthetic) |->
                     [point |-> X_synthetic[i], stroke |-> y_synthetic[i]]]
    /\ pc' = "score"
    /\ UNCHANGED <<data_vars, split_vars, sample_vars, error, eval_vars,
                   repair_vars>>

\* Line 218: nn.kneighbors(X) answers, for the i-th row of X, the distance
\* to its nearest real row.
kneighbors(X_std, X) == [i \in 1..Len(X) |-> X[i]]

\* Lines 223-224: a list assigned to a column goes in by position: its i-th
\* value lands in the table's i-th row, whichever row that is.
attach_by_position(df, dists) ==
    [i \in 1..Len(df) |->
       [point |-> df[i].point, stroke |-> df[i].stroke,
        distance_to_closest_real |-> dists[i]]]

\* Line 188, then lines 223-224.  synth_df.sample(frac = 1.0) lays the rows
\* out in a random order, and the list, still in SMOTE's order, is attached
\* to them by position.  Which value meets which row is all that is kept of
\* the order, so the outcomes are those of laying the list out in every
\* order against the rows as they were.
shuffle_then_attach(df, dists) ==
    {BagOfSeq(attach_by_position(df, d)) : d \in Arrangements(dists)}

\* Lines 187-224: shuffle the table, scale the synthetic points as SMOTE
\* returned them (X_synthetic, not the table), fit and apply the real-data
\* classifier, query the real rows for each point's nearest neighbour and
\* store the answers in the table.  From here on no statement addresses a
\* row by position, and synth_df holds the rows as a bag.
Score ==
    /\ pc = "score"
    /\ LET std == standardise_data("X_train", "X_synthetic")
           m == fit(std[1])
       IN  /\ X_train_std' = std[1]
           /\ X_synth_std' = std[2]
           /\ model' = m
           /\ applied' = applied \cup
                  {predict("model", m, std[1], 197),
                   predict("model", m, X_test_std, 198)}
           /\ synth_df' \in shuffle_then_attach(
                                 synth_df, kneighbors(std[2], X_synthetic))
    /\ pc' = "drop"
    /\ UNCHANGED <<data_vars, split_vars, sample_vars, error, X_test_std,
                   model_synth, repair_vars>>

\* Line 227.
identical(r) == r.distance_to_closest_real < duplicateThreshold

\* Lines 226-229.
DropIdentical ==
    /\ pc = "drop"
    /\ synth_df' = Mask(synth_df,
                       {r \in BagToSet(synth_df) : identical(r) = FALSE})
    /\ pc' = "trim"
    /\ UNCHANGED <<data_vars, split_vars, sample_vars, error, eval_vars,
                   repair_vars>>

\* Line 240: int(len * (1 - 0.1)).  The float product truncates to the exact
\* quotient for every length below 3000.
number_to_keep(len) == (len * (100 - proportion_to_remove_pct)) \div 100

\* Lines 236-241: sort by distance, largest first, and keep the head.  Rows
\* at equal distance come in no particular order.
head_by_distance(df, n) ==
    {kept \in SubBagsOfSize(df, n) :
        \A k \in BagToSet(kept), t \in BagToSet(df (-) kept) :
            k.distance_to_closest_real >= t.distance_to_closest_real}

\* Lines 231-245.
Trim ==
    /\ pc = "trim"
    /\ synth_df' \in head_by_distance(synth_df,
                                      number_to_keep(BagCardinality(synth_df)))
    /\ pc' = "rebalance"
    /\ UNCHANGED <<data_vars, split_vars, sample_vars, error, eval_vars,
                   repair_vars>>

\* Lines 249/253 with sample(n) handing out what there is when n is too large.
sample_raises_never(pool, n) == FALSE

\* DataFrame.sample(n) draws without replacement and raises ValueError when
\* n exceeds the number of rows.
sample_raises(pool, n) == n > BagCardinality(pool)

sample_at_most(pool, n) ==
    IF n > BagCardinality(pool) THEN {pool} ELSE SubBagsOfSize(pool, n)

\* Lines 247-257.
Rebalance ==
    /\ pc = "rebalance"
    /\ LET died == RowsOfClass(synth_df, 0)
           survived == RowsOfClass(synth_df, 1)
       IN  \/ /\ \/ sample_raises(died, number_died)
                 \/ sample_raises(survived, number_survived)
              /\ Abort("ValueError")
              /\ UNCHANGED synth_df
           \/ /\ ~sample_raises(died, number_died)
              /\ ~sample_raises(survived, number_survived)
              /\ \E synth_died \in sample_at_most(died, number_died),
                    synth_survived \in sample_at_most(survived,
                                                      number_survived) :
                   synth_df' = synth_died (+) synth_survived
              /\ pc' = "fit_synth"
              /\ UNCHANGED error
    /\ UNCHANGED <<data_vars, split_vars, sample_vars, eval_vars,
                   repair_vars>>

\* Lines 264-277.
FitSynth ==
    /\ pc = "fit_synth"
    /\ LET std == standardise_data("X_synth", "X_test")
           m == fit(std[1])
       IN  /\ X_synth_std' = std[1]
           /\ X_test_std' = std[2]
           /\ model_synth' = m
           /\ applied' = applied \cup
                  {predict("model_synth", m, std[2], 274)}
    /\ pc' = "roc"
    /\ UNCHANGED <<data_vars, split_vars, sample_vars, error, synth_df,
                   X_train_std, model, repair_vars>>

\* Lines 286-290.
Roc ==
    /\ pc = "roc"
    /\ applied' = applied \cup
           {predict("model", model, X_test_std, 286),
            predict("model_synth", model_synth, X_test_std, 287)}
    /\ pc' = "done"
    /\ UNCHANGED <<data_vars, split_vars, sample_vars, error, synth_df,
                   X_train_std, X_test_std, X_synth_std, model, model_synth,
                   repair_vars>>

Next ==
    \/ Split
    \/ Sample
    \/ BuildTable
    \/ Score
    \/ DropIdentical
    \/ Trim
    \/ Rebalance
    \/ FitSynth
    \/ Roc

Spec == Init /\ [][Next]_vars

-----------------------------------------------------------------------------
(* The repair loops, lines 137-181, on tables of feature values.           *)
(* A value is held in halves: 2 is 1.0, 1 is 0.5, -1 is -0.5.  A row maps   *)
(* column names to values; a table is a sequence of rows.                  *)

\* Line 138: the feature columns.  The data file is not part of the source;
\* the model takes these.
X_col_names ==
    <<"age", "hypertension", "heart_disease", "ever_married",
      "avg_glucose_level", "bmi",
      "gender_Female", "gender_Male",
      "work_type_Govt_job", "work_type_Private", "work_type_Self_employed",
      "residence_type_Rural", "residence_type_Urban",
      "smoking_status_never_smoked", "smoking_status_smokes">>

\* Line 141.
categorical == <<"gender_", "work_type_", "residence_type_", "smoking_status_">>

\* Line 144: x[0:len(col)] == col, for the names above.
starts_with(x, col) ==
    CASE col = "gender_" -> x \in {"gender_Female", "gender_Male"}
      [] col = "work_type_" ->
            x \in {"work_type_Govt_job", "work_type_Private",
                   "work_type_Self_employed"}
      [] col = "residence_type_" ->
            x \in {"residence_type_Rural", "residence_type_Urban"}
      [] col = "smoking_status_" ->
            x \in {"smoking_status_never_smoked", "smoking_status_smokes"}

\* Lines 142-144.
one_hot_cols ==
    [g \in 1..Len(categorical) |->
       SelectSeq(X_col_names, LAMBDA x : starts_with(x, categorical[g]))]

\* Line 147.
integer_cols == <<"age", "bmi">>

\* Line 150.
binary_cols == <<"hypertension", "heart_disease", "ever_married">>

Columns == {X_col_names[i] : i \in 1..Len(X_col_names)}
One == 2

\* np.argmax: the first position holding the largest value.
argmax(x) ==
    CHOOSE i \in 1..Len(x) :
        /\ \A j \in 1..Len(x) : x[j] <= x[i]
        /\ \A j \in 1..(i - 1) : x[j] < x[i]

\* Lines 91-107 with np.argmin for np.argmax: the lowest value is marked.
make_one_hot_lowest(x) ==
    LET lowest == CHOOSE i \in 1..Len(x) :
                      /\ \A j \in 1..Len(x) : x[j] >= x[i]
                      /\ \A j \in 1..(i - 1) : x[j] > x[i]
    IN  [i \in 1..Len(x) |-> IF i = lowest THEN One ELSE 0]

\* Lines 91-107.
make_one_hot(x) ==
    LET highest == argmax(x)
    IN  [i \in 1..Len(x) |-> IF i = highest THEN One ELSE 0]

\* Series.round(0) is numpy's: to the nearest integer, a half to the even
\* one.  v = 2k + 1 is the half between k and k + 1.
round0(v) ==
    IF v % 2 = 0 THEN v
    ELSE LET k == (v - 1) \div 2
         IN  IF k % 2 = 0 THEN 2 * k ELSE 2 * (k + 1)

\* np.clip(v, 0, 1).
clip01(v) == IF v < 0 THEN 0 ELSE IF v > One THEN One ELSE v

\* Lines 167-169 for one row and one group: x = row[one_hot_list] is a copy;
\* make_one_hot rewrites it; row[x_one_hot.index] = x_one_hot.values writes
\* it into `row`.
one_hot_row(row, one_hot_list) ==
    LET x == [i \in 1..Len(one_hot_list) |-> row[one_hot_list[i]]]
        x_one_hot == make_one_hot(x)
    IN  [c \in DOMAIN row |->
           IF \E i \in 1..Len(one_hot_list) : one_hot_list[i] = c
           THEN x_one_hot[CHOOSE i \in 1..Len(one_hot_list) :
                              one_hot_list[i] = c]
           ELSE row[c]]

\* Lines 165-169.  `row` is what iterrows() yielded.  pandas does not promise
\* that writing to it reaches the table ("depending on the data types, the
\* iterator returns a copy and not a view, and writing to it will have no
\* effect"): for a table of one dtype it is a view without copy-on-write and
\* a copy with it.  Both outcomes are modelled.
RECURSIVE one_hot_loop(_, _, _)
one_hot_loop(df, g, is_view) ==
    IF g > Len(one_hot_cols) THEN df
    ELSE one_hot_loop(
             [i \in 1..Len(df) |->
                LET row == one_hot_row(df[i], one_hot_cols[g])
                IN  IF is_view THEN row ELSE df[i]],
             g + 1, is_view)

\* Lines 172-173.
round_integer_cols(df) ==
    [i \in 1..Len(df) |->
       [c \in DOMAIN df[i] |->
          IF \E j \in 1..Len(integer_cols) : integer_cols[j] = c
          THEN round0(df[i][c]) ELSE df[i][c]]]

\* Lines 180-181.
clip_binary_cols(df) ==
    [i \in 1..Len(df) |->
       [c \in DOMAIN df[i] |->
          IF \E j \in 1..Len(binary_cols) : binary_cols[j] = c
          THEN round0(clip01(df[i][c])) ELSE df[i][c]]]

\* Lines 163-181 as one function of the table.
repair(df, is_view) ==
    clip_binary_cols(round_integer_cols(one_hot_loop(df, 1, is_view)))

\* Raw values a column can hold: -0.5, 0, 0.5, 1, 1.5, and 2.5 where a count
\* is meant.
RawValues == {-1, 0, 1, 2, 3}
RawIntegerValues == RawValues \cup {5}

\* A row that needs no repair, but for avg_glucose_level, which no loop
\* touches.
BaseRow ==
    [c \in Columns |->
       CASE c \in {"gender_Female", "work_type_Private",
                   "residence_type_Urban", "smoking_status_smokes"} -> One
         [] c = "age" -> 4
         [] c = "bmi" -> 6
         [] c = "avg_glucose_level" -> 3
         [] OTHER -> 0]

\* The raw rows: one group, or one binary or integer column, holds arbitrary
\* raw values.
RawRows ==
    UNION {{[c \in Columns |->
               IF \E i \in 1..Len(one_hot_cols[g]) : one_hot_cols[g][i] = c
               THEN x[CHOOSE i \in 1..Len(one_hot_cols[g]) :
                          one_hot_cols[g][i] = c]
               ELSE BaseRow[c]] :
              x \in [1..Len(one_hot_cols[g]) -> RawValues]} :
           g \in 1..Len(one_hot_cols)}
    \cup {[BaseRow EXCEPT ![binary_cols[j]] = v] :
              j \in 1..Len(binary_cols), v \in RawValues}
    \cup {[BaseRow EXCEPT ![integer_cols[j]] = v] :
              j \in 1..Len(integer_cols), v \in RawIntegerValues}

InitRepair ==
    /\ pc = "one_hot"
    /\ \E n \in 1..MaxRows : X_synthetic \in [1..n -> RawRows]
    /\ synth_X = X_synthetic
    /\ row_is_view \in BOOLEAN
    /\ number_died = 0
    /\ number_survived = 0
    /\ y_train = [c \in Classes |-> 0]
    /\ y_test = [c \in Classes |-> 0]
    /\ required_smote_count = <<>>
    /\ error = "none"
    /\ y_synthetic = <<>>
    /\ synth_df = <<>>
    /\ X_train_std = Undefined
    /\ X_test_std = Undefined
    /\ X_synth_std = Undefined
    /\ model = fit(Undefined)
    /\ model_synth = fit(Undefined)
    /\ applied = {}

other_vars == <<data_vars, split_vars, sample_vars, error, synth_df,
                eval_vars, row_is_view>>

\* Lines 163-169.
OneHotRepair ==
    /\ pc = "one_hot"
    /\ synth_X' = one_hot_loop(synth_X, 1, row_is_view)
    /\ pc' = "integer"
    /\ UNCHANGED other_vars

\* Lines 171-173.
RoundInteger ==
    /\ pc = "integer"
    /\ synth_X' = round_integer_cols(synth_X)
    /\ pc' = "binary"
    /\ UNCHANGED other_vars

\* Lines 175-181.
ClipBinary ==
    /\ pc = "binary"
    /\ synth_X' = clip_binary_cols(synth_X)
    /\ pc' = "repaired"
    /\ UNCHANGED other_vars

NextRepair ==
    \/ OneHotRepair
    \/ RoundInteger
    \/ ClipBinary

SpecRepair == InitRepair /\ [][NextRepair]_vars

-----------------------------------------------------------------------------
(* The claims.                                                             *)

Rows(df) == BagToSet(df)
CountLabel(y, c) == Cardinality({i \in 1..Len(y) : y[i] = c})
Scored == {"drop", "trim", "rebalance", "fit_synth", "roc", "done"}

\* C1: no record in the output of the quality filter (duplicate drop, then
\* trimming) lies closer than duplicateThreshold to its nearest real record,
\* measured from the record's own synthetic point.
C1_NoNearDuplicateSurvivesFilter ==
    pc = "rebalance" =>
        \A r \in Rows(synth_df) : ~(r.point < duplicateThreshold)

\* C2: the rebalancer either aborts the run or leaves, for each class,
\* exactly the number of records the real data has of it; a pool with fewer
\* records than that makes it abort.
C2_RebalanceExactOrFails ==
    [][pc = "rebalance" =>
          /\ (\/ CountClass(synth_df, 0) < number_died
              \/ CountClass(synth_df, 1) < number_survived)
                 => pc' = "failed" /\ synth_df' = synth_df
          /\ pc' # "failed" =>
                 /\ CountClass(synth_df', 0) = number_died
                 /\ CountClass(synth_df', 1) = number_survived]_vars

\* C2 witness: a rebalanced table with records of both classes.
C2_Witness ==
    /\ pc = "fit_synth"
    /\ CountClass(synth_df, 0) = number_died
    /\ CountClass(synth_df, 1) = number_survived
    /\ number_died > 0
    /\ number_survived > 0

\* C3: after the repair loops every row has, in each one-hot group, exactly
\* one member at 1 and the others at 0, and each binary column at 0 or 1.
C3_RepairedRowsSatisfySchema ==
    pc = "repaired" =>
        \A i \in 1..Len(synth_X) :
            /\ \A g \in 1..Len(one_hot_cols) :
                 /\ Cardinality({j \in 1..Len(one_hot_cols[g]) :
                        synth_X[i][one_hot_cols[g][j]] = One}) = 1
                 /\ \A j \in 1..Len(one_hot_cols[g]) :
                        synth_X[i][one_hot_cols[g][j]] \in {0, One}
            /\ \A j \in 1..Len(binary_cols) :
                   synth_X[i][binary_cols[j]] \in {0, One}

\* C4, as claimed: the sampler returns, for each class, the count it was
\* called with minus the number of real records of the class (zero when that
\* is not positive).
C4_SyntheticCountIsTargetMinusExisting ==
    pc = "table" =>
        \A c \in Classes :
            CountLabel(y_synthetic, c) =
                IF required_smote_count[c + 1] - y_train[c] > 0
                THEN required_smote_count[c + 1] - y_train[c] ELSE 0

\* C4, amended: the sampler returns, for each class, as many synthetic
\* records as the count it was called with for that class.
C4_SyntheticCountIsRequestedCount ==
    pc = "table" =>
        \A c \in Classes :
            CountLabel(y_synthetic, c) = required_smote_count[c + 1]

\* C4 witness: the sampler has returned points of both classes.
C4_Witness ==
    /\ pc = "table"
    /\ CountLabel(y_synthetic, 0) > 0
    /\ CountLabel(y_synthetic, 1) > 0
    /\ Len(X_synthetic) = CountLabel(y_synthetic, 0) + CountLabel(y_synthetic, 1)

\* C5: trimming keeps int(0.9 * n) of the n records left after the duplicate
\* drop, and every kept record is at least as far from its nearest real
\* record as every trimmed one, measured from the records' own points.
C5_TrimKeepsTheFarthest ==
    [][pc = "trim" =>
          /\ BagCardinality(synth_df') =
                 number_to_keep(BagCardinality(synth_df))
          /\ \A k \in Rows(synth_df'), t \in Rows(synth_df (-) synth_df') :
                 k.point >= t.point]_vars

\* C6, as claimed: the second classifier is fitted on synthetic features
\* scaled with statistics of the real training features.
C6_SyntheticScaledWithRealStatistics ==
    pc \in {"roc", "done"} => model_synth.trained_on.fit_on = "X_train"

\* C6, amended: the second classifier is fitted on the rebalanced synthetic
\* features scaled with statistics of those synthetic features themselves.
C6_SyntheticScaledWithOwnStatistics ==
    pc \in {"roc", "done"} =>
        model_synth.trained_on = [data |-> "X_synth", fit_on |-> "X_synth"]

\* C6 witness: the second classifier has been fitted.
C6_Witness ==
    /\ pc = "roc"
    /\ model_synth.trained_on.data = "X_synth"
    /\ \E a \in applied : a.model = "model_synth"

\* C7: repairing a repaired table changes nothing.
C7_RepairIdempotent ==
    pc = "repaired" => repair(synth_X, row_is_view) = synth_X

\* C7 witness: the loops have run, their writes reached the table, and they
\* changed it.
C7_Witness ==
    /\ pc = "repaired"
    /\ row_is_view
    /\ synth_X # X_synthetic
    /\ synth_X = repair(X_synthetic, row_is_view)

C9_FeaturesScaledAsTrainingData ==
    \A a \in applied : a.features.fit_on = a.trained_on.fit_on

\* C10: once the nearest-neighbour answers are stored, each row's
\* distance_to_closest_real is the distance of that row's own synthetic
\* point.
C10_StoredDistanceIsTheRowsOwn ==
    pc \in Scored =>
        \A r \in Rows(synth_df) : r.distance_to_closest_real = r.point

====
